---- MODULE Spec2Model ----
(***************************************************************************)
(* Model of src/server.js: the POST /convert pipeline (multer intake,     *)
(* DPI validation, the sequential per-file loop around setPdfDPI, the     *)
(* Ghostscript subprocess, cleanup of the directive and of the staged     *)
(* input) run by two concurrent requests over one filesystem.             *)
(*                                                                         *)
(* JavaScript runs handlers to completion between await points, so one    *)
(* action is one run-to-completion step: from the completion of one       *)
(* asynchronous operation (fs.writeFile, the subprocess, fs.unlink) to    *)
(* the start of the next.                                                  *)
(***************************************************************************)
EXTENDS Integers, Sequences, FiniteSets, TLC

\* ---------------------------------------------------------------- bounds
\* Largest batch (number of file parts) of one request.
MaxFiles == 2

\* Largest number of operations the environment makes fail in one run: a
\* failed fs.writeFile, a failed fs.unlink, a subprocess that cannot be
\* spawned. (A non-zero exit of the engine is no such fault and is not counted.)
MaxFaults == 1

\* The two concurrent requests of the model.
Reqs == {"A", "B"}

\* ------------------------------------------------------ program constants
DefaultDPI == 300
MinDPI == 72
MaxDPI == 2400

\* ------------------------------------------------ strings and conversions
\* A string is a sequence of one-character strings.
\* The value undefined of a missing form field; it is kept apart from every
\* string because its one element is not a character.
Undefined == <<"undefined">>

\* Numbers as parseInt gives them: NaN, or an integer.
NaN == [nan |-> TRUE, n |-> 0]
Num(i) == [nan |-> FALSE, n |-> i]

DecDigits == <<"0", "1", "2", "3", "4", "5", "6", "7", "8", "9">>
HexLower == <<"a", "b", "c", "d", "e", "f">>
HexUpper == <<"A", "B", "C", "D", "E", "F">>

\* Value of each character that is a digit of some radix up to 16.
DigitOf ==
    [c \in {DecDigits[i] : i \in 1..10} \cup {HexLower[i] : i \in 1..6}
            \cup {HexUpper[i] : i \in 1..6} |->
        IF \E i \in 1..10 : DecDigits[i] = c
        THEN (CHOOSE i \in 1..10 : DecDigits[i] = c) - 1
        ELSE IF \E i \in 1..6 : HexLower[i] = c
        THEN (CHOOSE i \in 1..6 : HexLower[i] = c) + 9
        ELSE (CHOOSE i \in 1..6 : HexUpper[i] = c) + 9]

\* Value of a character as a digit; 99 when it is no digit at all.
DigitValue(c) == IF c \in DOMAIN DigitOf THEN DigitOf[c] ELSE 99

\* ToString of the value handed to parseInt: a missing field is the value
\* undefined, whose string is "undefined".
ToStr(v) ==
    IF v = Undefined THEN <<"u", "n", "d", "e", "f", "i", "n", "e", "d">> ELSE v

RECURSIVE TrimLeft(_)
TrimLeft(s) ==
    IF s # <<>> /\ Head(s) = " " THEN TrimLeft(Tail(s)) ELSE s

\* Length of the longest prefix of s made of digits of radix R.
RECURSIVE PrefixLen(_, _)
PrefixLen(s, R) ==
    IF s # <<>> /\ DigitValue(Head(s)) < R THEN 1 + PrefixLen(Tail(s), R) ELSE 0

\* Value of the first k characters of s read in radix R.
RECURSIVE RadixValue(_, _, _)
RadixValue(s, k, R) ==
    IF k = 0 THEN 0 ELSE RadixValue(s, k - 1, R) * R + DigitValue(s[k])

\* parseInt(string) with no radix argument: leading white space, an optional
\* sign, an optional 0x prefix, then the longest prefix of digits; NaN when
\* that prefix is empty.
parseInt(v) ==
    LET t == TrimLeft(ToStr(v))
        signed == t # <<>> /\ Head(t) \in {"-", "+"}
        sign == IF t # <<>> /\ Head(t) = "-" THEN -1 ELSE 1
        u == IF signed THEN Tail(t) ELSE t
        hex == Len(u) >= 2 /\ u[1] = "0" /\ u[2] \in {"x", "X"}
        R == IF hex THEN 16 ELSE 10
        w == IF hex THEN SubSeq(u, 3, Len(u)) ELSE u
        k == PrefixLen(w, R)
    IN  IF k = 0 THEN NaN ELSE Num(sign * RadixValue(w, k, R))

\* Digits of a natural number, most significant first.
RECURSIVE NatDigits(_)
NatDigits(n) ==
    IF n < 10 THEN <<DecDigits[n + 1]>>
    ELSE NatDigits(n \div 10) \o <<DecDigits[(n % 10) + 1]>>

\* `${n}` for an integer n: its decimal numeral.
Decimal(n) ==
    IF n < 0 THEN <<"-">> \o NatDigits(-n) ELSE NatDigits(n)

\* A mutant of EffectiveDPI: another default.
EffectiveDPIDefault150(v) ==
    LET x == parseInt(v) IN IF x.nan \/ x.n = 0 THEN 150 ELSE x.n

\* parseInt(req.body.dpi) || 300 : NaN and 0 are falsy.
EffectiveDPI(v) ==
    LET x == parseInt(v) IN IF x.nan \/ x.n = 0 THEN DefaultDPI ELSE x.n

\* targetDPI < 72 || targetDPI > 2400
DpiOutOfRange(d) == d < MinDPI \/ d > MaxDPI

\* ------------------------------------------------------------------ state
VARIABLES
    pc,         \* per request: where its handler is suspended
    files,      \* per request: req.files, the staged UploadedFiles in order
    mimes,      \* per request: declared content types of the file parts sent
    body,       \* per request: req.body.dpi (Undefined when the field is missing)
    targetDPI,  \* per request: the handler's targetDPI
    idx,        \* per request: position of the for loop in req.files
    outName,    \* per request: outputFileName of the current iteration
    results,    \* per request: the handler's results array
    cmd,        \* per request: command line of the current engine invocation
    read,       \* per request: what the current engine run read
    exit,       \* per request: how the engine of the current iteration ended
    err,        \* per request: the Error a rejected setPdfDPI carries
    resp,       \* per request: the responses sent, in order
    hist,       \* per request, per file: what was done for that file so far
    uploads,    \* staged input files present in uploads/
    ps,         \* the file uploads/setdpi.ps
    output,     \* files present in output/: name -> content
    faults,     \* number of failed operations so far
    got         \* the answer to the latest GET /output/:filename

vars == <<pc, files, mimes, body, targetDPI, idx, outName, results, cmd, read, exit,
          err, resp, hist, uploads, ps, output, faults, got>>

\* The dpi form fields the requests are sent with.
DpiFields ==
    { Undefined,
      <<"a", "b", "c">>,
      <<"0">>,
      <<"-", "5">>,
      <<"7", "1">>,
      <<"7", "2">>,
      <<"2", "4", "0", "0">>,
      <<"2", "4", "0", "1">> }

\* The declared content types the file parts are sent with, and the batches
\* of file parts of a request.
MimeTypes == {"application/pdf", "image/png"}
MimeBatches == UNION {[1..n -> MimeTypes] : n \in 0..MaxFiles}

\* file.originalname of the i-th file part of a batch.
OriginalNames == <<"a.pdf", "b.pdf", "c.pdf", "d.pdf">>

\* file.path of the i-th file of request r: multer stages each accepted file
\* under its own random name in uploads/.
StagedPath(r, i) == [dir |-> "uploads", req |-> r, k |-> i]

UploadedFile(r, i) == [path |-> StagedPath(r, i), originalname |-> OriginalNames[i]]

\* uploads/setdpi.ps when it does not exist, and after a write that failed
\* part-way (the file was created or truncated, the text is incomplete).
NoFile == [exists |-> FALSE, color |-> <<>>, gray |-> <<>>, mono |-> <<>>]
Truncated == [exists |-> TRUE, color |-> <<>>, gray |-> <<>>, mono |-> <<>>]

\* psContent: the parts of the directive text that depend on targetDPI.
PsContent(d) ==
    [exists |-> TRUE, color |-> Decimal(d), gray |-> Decimal(d), mono |-> Decimal(d)]

\* crypto.randomBytes(16).toString("hex") drawn for the i-th file of request
\* r: every draw gives a value no other draw gives.
RandomToken(r, i) == [req |-> r, k |-> i]

NoToken == RandomToken("A", 0)
NoCmd == [xres |-> <<>>, yres |-> <<>>, input |-> StagedPath("A", 0), out |-> NoToken]

\* A mutant of Command: the vertical resolution is left at the default.
CommandDefaultY(inputPath, outputName, d) ==
    [xres |-> Decimal(d), yres |-> Decimal(DefaultDPI), input |-> inputPath,
     out |-> outputName]

\* command: the arguments of the gs command line that vary.
Command(inputPath, outputName, d) ==
    [xres |-> Decimal(d), yres |-> Decimal(d), input |-> inputPath, out |-> outputName]

\* What the engine wrote to its output file.
OutputContent(c) == [input |-> c.input, xres |-> c.xres, yres |-> c.yres]

\* No GET has been answered yet.
NoGet == [name |-> NoToken, status |-> 0, body |-> OutputContent(NoCmd)]

NoRead == [directive |-> NoFile, input |-> FALSE]
NoErr == [kind |-> "none", command |-> NoCmd]

\* What has been done for one file of a batch.
NoHist ==
    [token |-> NoToken, out |-> NoToken, writes |-> 0, execs |-> 0, psUnlinks |-> 0,
     inUnlinks |-> 0, inUnlinkFailed |-> FALSE, outcome |-> "none"]

\* A ConversionResult as results.push builds it.
Result(file, name, d) ==
    [originalName |-> file.originalname, name |-> name,
     url |-> <<"/output/", name>>, dpi |-> d]

TypeOK ==
    /\ pc \in [Reqs -> {"new", "rejected", "staged", "write", "exec", "running", "unlinkps",
                        "unlinkin", "done"}]
    /\ \A r \in Reqs :
        /\ Len(files[r]) <= MaxFiles
        /\ idx[r] \in 0..Len(files[r])
        /\ Len(results[r]) <= Len(files[r])
        /\ Len(hist[r]) = Len(files[r])
        /\ Len(resp[r]) <= 1
    /\ faults \in 0..MaxFaults

Init ==
    /\ pc = [r \in Reqs |-> "new"]
    /\ files = [r \in Reqs |-> <<>>]
    /\ mimes = [r \in Reqs |-> <<>>]
    /\ body = [r \in Reqs |-> Undefined]
    /\ targetDPI = [r \in Reqs |-> 0]
    /\ idx = [r \in Reqs |-> 0]
    /\ outName = [r \in Reqs |-> NoToken]
    /\ results = [r \in Reqs |-> <<>>]
    /\ cmd = [r \in Reqs |-> NoCmd]
    /\ read = [r \in Reqs |-> NoRead]
    /\ exit = [r \in Reqs |-> "none"]
    /\ err = [r \in Reqs |-> NoErr]
    /\ resp = [r \in Reqs |-> <<>>]
    /\ hist = [r \in Reqs |-> <<>>]
    /\ uploads = {}
    /\ ps = NoFile
    /\ output = <<>>
    /\ faults = 0
    /\ got = NoGet

\* -------------------------------------------------------------- responses
NoFilesResponse == [status |-> 400, error |-> "No files uploaded"]
BadDpiResponse == [status |-> 400, error |-> "DPI must be between 72 and 2400"]
OkResponse(rs) == [status |-> 200, message |-> "Files processed successfully", files |-> rs]
ErrorResponse(e) == [status |-> 500, error |-> "Internal Server Error", details |-> e]

\* The answer to a request whose upload multer refuses: the Error of the
\* fileFilter goes to the framework's error handling, not to the handler.
FilterErrorResponse == [status |-> 500, error |-> "Only PDF files are allowed"]

\* A mutant of Respond: the response is sent a second time.
RespondTwice(r, response) ==
    /\ resp' = [resp EXCEPT ![r] = Append(Append(@, response), response)]
    /\ pc' = [pc EXCEPT ![r] = "done"]

\* res.status(..).json(..): the response is sent and the handler ends.
Respond(r, response) ==
    /\ resp' = [resp EXCEPT ![r] = Append(@, response)]
    /\ pc' = [pc EXCEPT ![r] = "done"]

\* One iteration of the for loop up to its first suspension: a fresh output
\* name is drawn and setPdfDPI starts fs.writeFile on the directive path.
\* h is the request's history before the iteration.
StartFile(r, i, h) ==
    /\ idx' = [idx EXCEPT ![r] = i]
    /\ outName' = [outName EXCEPT ![r] = RandomToken(r, i)]
    /\ pc' = [pc EXCEPT ![r] = "write"]
    /\ hist' = [hist EXCEPT ![r] = [h EXCEPT ![i].token = RandomToken(r, i),
                                              ![i].writes = @ + 1]]

\* The finally block of the loop body starts fs.unlink(file.path).
\* h is the request's history before it.
StartUnlinkInput(r, h) ==
    /\ pc' = [pc EXCEPT ![r] = "unlinkin"]
    /\ hist' = [hist EXCEPT ![r] = [h EXCEPT ![idx[r]].inUnlinks = @ + 1]]

\* The environment makes the operation of this step fail (or not): at most
\* MaxFaults operations fail in one run.
Fault(failed) ==
    /\ failed => faults < MaxFaults
    /\ faults' = IF failed THEN faults + 1 ELSE faults

\* ---------------------------------------------------------------- actions
\* A mutant of FileFilter: every content type is let in.
FileFilterAcceptsAll(mimetype) == TRUE

\* fileFilter: only parts declared application/pdf are accepted.
FileFilter(mimetype) == mimetype = "application/pdf"

\* upload.array("files") on a request whose file parts are declared ms. When
\* the fileFilter accepts every part they are staged in uploads/, the text
\* fields are put in req.body and the handler is due. When it refuses a part
\* that part is not stored, whatever was stored of the request is removed
\* again, and the request ends with the filter's error without reaching the
\* handler.
Intake(r, ms, field) ==
    /\ pc[r] = "new"
    /\ mimes' = [mimes EXCEPT ![r] = ms]
    /\ IF \A i \in 1..Len(ms) : FileFilter(ms[i])
       THEN /\ files' = [files EXCEPT ![r] = [i \in 1..Len(ms) |-> UploadedFile(r, i)]]
            /\ uploads' = uploads \cup {StagedPath(r, i) : i \in 1..Len(ms)}
            /\ body' = [body EXCEPT ![r] = field]
            /\ hist' = [hist EXCEPT ![r] = [i \in 1..Len(ms) |-> NoHist]]
            /\ pc' = [pc EXCEPT ![r] = "staged"]
            /\ UNCHANGED resp
       ELSE /\ resp' = [resp EXCEPT ![r] = Append(@, FilterErrorResponse)]
            /\ pc' = [pc EXCEPT ![r] = "rejected"]
            /\ UNCHANGED <<files, uploads, body, hist>>
    /\ UNCHANGED <<got, targetDPI, idx, outName, results, cmd, read, exit, err, ps,
                   output, faults>>

\* A mutant of NoFiles: the check for an empty batch is missing.
NoFilesNever(fs) == FALSE

\* !req.files || req.files.length === 0
NoFiles(fs) == Len(fs) = 0

\* The POST /convert handler from its start to its first suspension (a for
\* loop over no file at all would fall through to the 200 answer).
Convert(r) ==
    /\ pc[r] = "staged"
    /\ IF NoFiles(files[r])
       THEN /\ Respond(r, NoFilesResponse)
            /\ UNCHANGED <<targetDPI, idx, outName, hist>>
       ELSE \E d \in {EffectiveDPI(body[r])} :
            /\ targetDPI' = [targetDPI EXCEPT ![r] = d]
            /\ IF DpiOutOfRange(d)
               THEN /\ Respond(r, BadDpiResponse)
                    /\ UNCHANGED <<idx, outName, hist>>
               ELSE IF Len(files[r]) = 0
               THEN /\ Respond(r, OkResponse(results[r]))
                    /\ UNCHANGED <<idx, outName, hist>>
               ELSE /\ StartFile(r, 1, hist[r])
                    /\ UNCHANGED resp
    /\ UNCHANGED <<got, files, mimes, body, results, cmd, read, exit, err, uploads, ps, output,
                   faults>>

\* fs.writeFile(psFile, psContent) completes. On success the .then callback
\* runs exec(command). On failure the promise of setPdfDPI is rejected, the
\* loop's catch rethrows and its finally starts to unlink the staged input.
\* A failed write either left the path as it was or left a cut-off file.
WriteDirective(r, o) ==
    /\ pc[r] = "write"
    /\ o \in {"ok", "fail", "failPartial"}
    /\ Fault(o # "ok")
    /\ IF o = "ok"
       THEN /\ ps' = PsContent(targetDPI[r])
            /\ cmd' = [cmd EXCEPT ![r] =
                         Command(files[r][idx[r]].path, outName[r], targetDPI[r])]
            /\ pc' = [pc EXCEPT ![r] = "exec"]
            /\ hist' = [hist EXCEPT ![r][idx[r]].execs = @ + 1,
                                    ![r][idx[r]].out = outName[r]]
            /\ UNCHANGED err
       ELSE /\ ps' = IF o = "failPartial" THEN Truncated ELSE ps
            /\ err' = [err EXCEPT ![r] = [kind |-> "ps", command |-> NoCmd]]
            /\ StartUnlinkInput(r, [hist[r] EXCEPT ![idx[r]].outcome = "writefail"])
            /\ UNCHANGED cmd
    /\ UNCHANGED <<got, files, mimes, body, targetDPI, idx, outName, results, read, exit, resp,
                   uploads, output>>

\* The gs subprocess opens its two -f inputs: the directive file at the shared
\* path, as it is at that moment, and the staged input.
EngineRead(r) ==
    /\ pc[r] = "exec"
    /\ read' = [read EXCEPT ![r] =
                  [directive |-> ps, input |-> cmd[r].input \in uploads]]
    /\ pc' = [pc EXCEPT ![r] = "running"]
    /\ UNCHANGED <<got, files, mimes, body, targetDPI, idx, outName, results, cmd, exit, err,
                   resp, hist, uploads, ps, output, faults>>

\* Exits the engine can take after what it read: it cannot succeed without
\* its inputs.
EngineExits(rd) ==
    IF rd.directive.exists /\ rd.input
    THEN {"ok", "okStderr", "nonzero"}
    ELSE {"nonzero"}

\* A mutant of ExecError: text on standard error is taken for a failure.
ExecErrorOnStderr(o) == IF o \in {"ok", "none"} THEN "none" ELSE "nonzero"

\* The error argument exec hands to its callback: set when the subprocess
\* could not be spawned or exited with a non-zero status, null otherwise.
ExecError(o) == IF o \in {"ok", "okStderr", "none"} THEN "none" ELSE o

\* The exec callback up to its first suspension: it starts fs.unlink(psFile).
ExecCallback(r, o) ==
    /\ exit' = [exit EXCEPT ![r] = o]
    /\ read' = [read EXCEPT ![r] = NoRead]
    /\ pc' = [pc EXCEPT ![r] = "unlinkps"]
    /\ hist' = [hist EXCEPT ![r][idx[r]].psUnlinks = @ + 1]

\* The subprocess could not be spawned: exec calls back with an error.
SpawnFail(r) ==
    /\ pc[r] = "exec"
    /\ Fault(TRUE)
    /\ ExecCallback(r, "spawn")
    /\ UNCHANGED <<got, files, mimes, body, targetDPI, idx, outName, results, cmd, err, resp,
                   uploads, ps, output>>

\* The subprocess exits; with status 0 it has written its output file.
EngineExit(r, o) ==
    /\ pc[r] = "running"
    /\ o \in EngineExits(read[r])
    /\ output' = IF o \in {"ok", "okStderr"}
                 THEN (cmd[r].out :> OutputContent(cmd[r])) @@ output
                 ELSE output
    /\ ExecCallback(r, o)
    /\ UNCHANGED <<got, files, mimes, body, targetDPI, idx, outName, results, cmd, err, resp,
                   uploads, ps, faults>>

\* A mutant of PushResult: the new result is put in front.
PushResultFront(rs, file, name, d) == <<Result(file, name, d)>> \o rs

\* A mutant of PushResult: the result is not recorded at this point.
PushResultSkipped(rs, file, name, d) == rs

\* results.push({...})
PushResult(rs, file, name, d) == Append(rs, Result(file, name, d))

\* A mutant of UnlinkEscalates: a failed unlink is thrown on.
UnlinkEscalatesOnFailure(failed) == failed

\* fs.unlink(..).catch(console.error): the handler of the catch logs and
\* returns, so the awaited promise never rejects, failed unlink or not.
UnlinkEscalates(failed) == FALSE

\* The Error setPdfDPI rejects with after a failed engine run; the message of
\* exec's error quotes the command line.
EngineError(r) ==
    [kind |-> "gs",
     command |-> IF ExecError(exit[r]) = "nonzero" THEN cmd[r] ELSE NoCmd]

\* await fs.unlink(psFile).catch(console.error) completes (failed is the
\* case the unlink did not remove an existing file), then the promise of
\* setPdfDPI is settled: rejected when exec reported an error, resolved
\* otherwise, and the loop body runs on to its finally block.
UnlinkDirective(r, failed) ==
    /\ pc[r] = "unlinkps"
    /\ Fault(failed)
    /\ ps' = IF failed THEN ps ELSE NoFile
    /\ cmd' = [cmd EXCEPT ![r] = NoCmd]
    /\ IF ExecError(exit[r]) # "none" \/ UnlinkEscalates(failed)
       THEN /\ err' = [err EXCEPT ![r] = EngineError(r)]
            /\ StartUnlinkInput(r, [hist[r] EXCEPT ![idx[r]].outcome = "enginefail"])
            /\ UNCHANGED results
       ELSE /\ results' = [results EXCEPT ![r] =
                             PushResult(@, files[r][idx[r]], outName[r], targetDPI[r])]
            /\ StartUnlinkInput(r, [hist[r] EXCEPT ![idx[r]].outcome = "ok"])
            /\ UNCHANGED err
    /\ UNCHANGED <<got, files, mimes, body, targetDPI, idx, outName, read, exit, resp,
                   uploads, output>>

\* A mutant of RemoveFile: another path than the staged input is unlinked.
RemoveFileWrongPath(dir, path, failed) == dir

\* fs.unlink(path) on a directory listing: the file is gone unless the
\* unlink failed.
RemoveFile(dir, path, failed) == IF failed THEN dir ELSE dir \ {path}

\* A mutant of LoopAborts: the catch block swallows the error.
LoopNeverAborts(e) == FALSE

\* catch (error) { ...; throw error; } : a rejected setPdfDPI ends the loop.
LoopAborts(e) == e.kind # "none"

\* await fs.unlink(file.path).catch(...) completes (failed is the case the
\* unlink did not remove the file). A pending error then leaves the loop for
\* the outer catch, which answers 500; otherwise the loop goes on to the next
\* file, or after the last one the handler answers 200.
UnlinkInput(r, failed) ==
    /\ pc[r] = "unlinkin"
    /\ Fault(failed)
    /\ uploads' = RemoveFile(uploads, files[r][idx[r]].path, failed)
    /\ exit' = [exit EXCEPT ![r] = "none"]
    /\ LET h == [hist[r] EXCEPT ![idx[r]].inUnlinkFailed = failed]
       IN  IF LoopAborts(err[r]) \/ UnlinkEscalates(failed)
           THEN /\ Respond(r, ErrorResponse(err[r]))
                /\ hist' = [hist EXCEPT ![r] = h]
                /\ UNCHANGED <<idx, outName>>
           ELSE IF idx[r] < Len(files[r])
           THEN /\ StartFile(r, idx[r] + 1, h)
                /\ UNCHANGED resp
           ELSE /\ Respond(r, OkResponse(results[r]))
                /\ hist' = [hist EXCEPT ![r] = h]
                /\ UNCHANGED <<idx, outName>>
    /\ UNCHANGED <<got, files, mimes, body, targetDPI, results, cmd, read, err, ps,
                   output>>

\* A name no output was ever given, and the names GET /output is asked for.
UnknownName == [req |-> "none", k |-> 0]
GetNames == {RandomToken(r, i) : r \in Reqs, i \in 1..MaxFiles} \cup {UnknownName}

\* A mutant of Serve: the download is started without the access check.
ServeWithoutAccess(dir, name) ==
    [name |-> name, status |-> 200,
     body |-> IF name \in DOMAIN dir THEN dir[name] ELSE OutputContent(NoCmd)]

\* fs.access(filePath) then res.download(filePath), or the 404 of the catch.
Serve(dir, name) ==
    IF name \in DOMAIN dir
    THEN [name |-> name, status |-> 200, body |-> dir[name]]
    ELSE [name |-> name, status |-> 404, body |-> OutputContent(NoCmd)]

\* GET /output/:filename
Get(name) ==
    /\ got' = Serve(output, name)
    /\ UNCHANGED <<pc, files, mimes, body, targetDPI, idx, outName, results, cmd, read,
                   exit, err, resp, hist, uploads, ps, output, faults>>

\* The dpi field each request is sent with: request A takes every field
\* value, request B, the request that runs beside it, a missing field or a
\* valid one (the handler is the same code for both).
DpiFieldsOf(r) == IF r = "A" THEN DpiFields ELSE {Undefined, <<"7", "2">>}

Next ==
    \/ \E r \in Reqs, ms \in MimeBatches :
          \E field \in DpiFieldsOf(r) : Intake(r, ms, field)
    \/ \E r \in Reqs : Convert(r)
    \/ \E r \in Reqs, o \in {"ok", "fail", "failPartial"} : WriteDirective(r, o)
    \/ \E r \in Reqs : EngineRead(r)
    \/ \E r \in Reqs : SpawnFail(r)
    \/ \E r \in Reqs, o \in {"ok", "okStderr", "nonzero"} : EngineExit(r, o)
    \/ \E r \in Reqs, failed \in BOOLEAN : UnlinkDirective(r, failed)
    \/ \E r \in Reqs, failed \in BOOLEAN : UnlinkInput(r, failed)

Spec == Init /\ [][Next]_vars

\* The conversions with downloads among them: requests whose parts are all
\* PDF, sent with a missing or a valid dpi field, no operation failing, and
\* GET /output requests at any moment.
PdfBatches == {ms \in MimeBatches : \A i \in 1..Len(ms) : ms[i] = "application/pdf"}
GetDpiFields == {Undefined, <<"7", "2">>}

NextGet ==
    \/ \E r \in Reqs, ms \in PdfBatches, field \in GetDpiFields : Intake(r, ms, field)
    \/ \E r \in Reqs : Convert(r)
    \/ \E r \in Reqs : WriteDirective(r, "ok")
    \/ \E r \in Reqs : EngineRead(r)
    \/ \E r \in Reqs, o \in {"ok", "okStderr", "nonzero"} : EngineExit(r, o)
    \/ \E r \in Reqs : UnlinkDirective(r, FALSE)
    \/ \E r \in Reqs : UnlinkInput(r, FALSE)
    \/ \E name \in GetNames : Get(name)

SpecGet == Init /\ [][NextGet]_vars

\* The next step of request r's handler, whatever its outcome: a callback
\* of the request that is ready to run (the handler itself, the completion
\* of fs.writeFile or fs.unlink with or without an error, the start and the
\* exit of the gs subprocess).
HandlerStep(r) ==
    \/ Convert(r)
    \/ \E o \in {"ok", "fail", "failPartial"} : WriteDirective(r, o)
    \/ EngineRead(r)
    \/ SpawnFail(r)
    \/ \E o \in {"ok", "okStderr", "nonzero"} : EngineExit(r, o)
    \/ \E failed \in BOOLEAN : UnlinkDirective(r, failed)
    \/ \E failed \in BOOLEAN : UnlinkInput(r, failed)

\* The requests the progress of the handler is checked for: batches of PDF
\* parts, sent with a missing dpi field or with one out of range.
LiveDpiFields == {Undefined, <<"7", "1">>}

NextLive ==
    \/ \E r \in Reqs, ms \in PdfBatches, field \in LiveDpiFields : Intake(r, ms, field)
    \/ \E r \in Reqs : HandlerStep(r)

\* The server when every filesystem operation completes, with or without an
\* error, and every engine subprocess exits: the event loop runs each
\* callback that is ready, so no request's next step is put off for ever.
SpecLive == Init /\ [][NextLive]_vars /\ \A r \in Reqs : WF_vars(HandlerStep(r))

\* ----------------------------------------------- vocabulary of the claims
\* The staged input files of request r.
StagedOf(r) == {files[r][i].path : i \in 1..Len(files[r])}

Responded(r) == resp[r] # <<>>

\* The response of a request that has been answered.
Response(r) == resp[r][1]

\* The request has reached the handler or is due to (its files are staged).
Received(r) == pc[r] \notin {"new", "rejected"}

\* The handler has passed the validation of the request.
Accepted(r) == pc[r] \notin {"new", "staged"} /\ hist[r] # <<>> /\ hist[r][1].writes > 0

\* The attempt for file i of request r has been started / is over (its
\* finally block has run to its end).
Started(r, i) == hist[r][i].token # NoToken
Ended(r, i) == i < idx[r] \/ (i = idx[r] /\ pc[r] = "done")

\* A dpi field that is a plain decimal numeral, with or without a minus sign,
\* and the integer it denotes.
IsDigit(c) == \E i \in 1..10 : DecDigits[i] = c
Magnitude(v) == IF v # <<>> /\ Head(v) = "-" THEN Tail(v) ELSE v
IsInteger(v) ==
    /\ v # Undefined
    /\ Magnitude(v) # <<>>
    /\ \A i \in 1..Len(Magnitude(v)) : IsDigit(Magnitude(v)[i])
RECURSIVE NumeralValue(_)
NumeralValue(u) ==
    IF u = <<>> THEN 0
    ELSE 10 * NumeralValue(SubSeq(u, 1, Len(u) - 1))
         + (CHOOSE i \in 0..9 : DecDigits[i + 1] = u[Len(u)])
IntegerOf(v) ==
    IF Head(v) = "-" THEN 0 - NumeralValue(Magnitude(v)) ELSE NumeralValue(v)

\* A dpi field that is missing, or that holds no digit at all.
NotANumber(v) == v = Undefined \/ \A i \in 1..Len(v) : ~IsDigit(v[i])

\* No directive was written and no engine was invoked for request r.
NoWork(r) == \A i \in 1..Len(hist[r]) : hist[r][i].writes = 0 /\ hist[r][i].execs = 0

\* ------------------------------------------------------------------ claims
\* C1: once the response of a POST /convert request has been sent, none of
\* the input files staged for it exists on disk any more. (Refuted: a request
\* rejected for its DPI, and the files after the failing one of a batch, are
\* never unlinked.)
C1_StagedGoneAfterResponse ==
    \A r \in Reqs : Responded(r) => StagedOf(r) \cap uploads = {}

\* C2: of two simultaneous single-file requests, with no operation failing,
\* an engine run reads the directive written for its own attempt: the image
\* resolutions of the directive it reads equal the device resolution of its
\* command line. (Refuted: the directive path is shared.)
C2_EngineReadsOwnDirective ==
    (faults = 0 /\ \A q \in Reqs : Len(files[q]) = 1) =>
        \A r \in Reqs :
            pc[r] = "running" =>
                /\ read[r].directive.exists
                /\ read[r].directive.color = cmd[r].xres
                /\ read[r].directive.gray = cmd[r].xres
                /\ read[r].directive.mono = cmd[r].xres

\* C3: a request with at least one file whose dpi field is an integer below
\* 72 or above 2400 is answered 400, and no directive is written and no
\* engine is invoked for it. (Refuted: the field "0" is taken for a missing
\* one.)
C3_OutOfRangeRejected ==
    \A r \in Reqs :
        ( /\ Received(r)
          /\ Len(files[r]) >= 1
          /\ IsInteger(body[r])
          /\ (IntegerOf(body[r]) < 72 \/ IntegerOf(body[r]) > 2400) ) =>
            /\ NoWork(r)
            /\ Responded(r) => Response(r).status = 400

\* The error response quotes the output name t.
Quotes(response, t) ==
    /\ "details" \in DOMAIN response
    /\ response.details.command.out = t

Failed(r, k) == hist[r][k].outcome \in {"writefail", "enginefail"}

\* C4: when the conversion of file k of a batch fails, the outputs of files
\* 1..k-1 are in the output directory, no result is recorded for file k, no
\* directive is written and no engine is invoked for the files after k, and
\* the request gets a single 500 response that carries no result list and
\* quotes none of the outputs of files 1..k-1.
C4_BatchAbort ==
    \A r \in Reqs : \A k \in 1..Len(files[r]) :
        Failed(r, k) =>
            /\ \A j \in 1..(k - 1) :
                /\ hist[r][j].outcome = "ok"
                /\ hist[r][j].out \in DOMAIN output
            /\ Len(results[r]) = k - 1
            /\ \A i \in 1..Len(results[r]) : results[r][i].name # hist[r][k].token
            /\ \A j \in (k + 1)..Len(files[r]) :
                ~Started(r, j) /\ hist[r][j].writes = 0 /\ hist[r][j].execs = 0
            /\ Len(resp[r]) <= 1
            /\ pc[r] = "done" =>
                /\ Len(resp[r]) = 1
                /\ Response(r).status = 500
                /\ "files" \notin DOMAIN Response(r)
                /\ \A j \in 1..(k - 1) : ~Quotes(Response(r), hist[r][j].out)

\* C4 witness: one answered batch failed at its first file with a file left
\* over, another at its second file after a converted first one.
C4_Witness ==
    \E r, q \in Reqs :
        /\ Len(files[r]) = 2 /\ Failed(r, 1) /\ pc[r] = "done"
        /\ Len(files[q]) = 2 /\ hist[q][1].outcome = "ok"
        /\ hist[q][2].outcome = "enginefail" /\ pc[q] = "done"

\* C5: on every exit path of a conversion attempt (engine success, engine
\* failure, failed directive write) the unlink of the directive file is
\* performed before the attempt ends. (Refuted: after a failed write the
\* directive path is never unlinked.)
C5_DirectiveUnlinkedOnEveryExit ==
    \A r \in Reqs : \A i \in 1..Len(files[r]) :
        hist[r][i].outcome # "none" => hist[r][i].psUnlinks >= 1

\* C6 as stated: every staged input whose attempt was started is unlinked
\* exactly once when the attempt completes and is never left on disk after
\* its attempt has ended. (Refuted as stated: a failed unlink is logged and
\* ignored, and leaves the file.)
C6_UnlinkedOnceAndGone ==
    \A r \in Reqs : \A i \in 1..Len(files[r]) :
        /\ hist[r][i].inUnlinks <= 1
        /\ Ended(r, i) =>
            hist[r][i].inUnlinks = 1 /\ files[r][i].path \notin uploads

\* C6 amended: for every staged input whose attempt was started, fs.unlink is
\* called on it exactly once, when the attempt completes (after success,
\* engine failure or a failed directive write) and not before the attempt has
\* settled; it is never called twice, and the file is gone after its attempt
\* has ended unless that one unlink call itself failed.
C6_UnlinkCalledOnce ==
    \A r \in Reqs : \A i \in 1..Len(files[r]) :
        /\ hist[r][i].inUnlinks <= 1
        /\ hist[r][i].inUnlinks = 1 => hist[r][i].outcome # "none"
        /\ ~Started(r, i) => hist[r][i].inUnlinks = 0 /\ files[r][i].path \in uploads
        /\ Ended(r, i) =>
            /\ hist[r][i].inUnlinks = 1
            /\ files[r][i].path \in uploads <=> hist[r][i].inUnlinkFailed

\* C6 witness: in one batch the three kinds of attempt have ended, and one
\* unlink has failed.
C6_Witness ==
    \E r, q \in Reqs :
        /\ Len(files[r]) = 2 /\ pc[r] = "done"
        /\ hist[r][1].outcome = "ok" /\ hist[r][2].outcome = "enginefail"
        /\ hist[r][1].inUnlinkFailed /\ files[r][1].path \in uploads
        /\ files[r][2].path \notin uploads
        /\ pc[q] = "done" /\ Len(files[q]) = 1 /\ hist[q][1].outcome = "ok"
        /\ files[q][1].path \notin uploads

\* C7: for a request with at least one file whose dpi field is missing or
\* holds no number, the target DPI is exactly 300: every engine invocation
\* gets 300 as both device resolutions and every result reports dpi 300.
C7_DefaultDPI ==
    \A r \in Reqs :
        (Received(r) /\ Len(files[r]) >= 1 /\ NotANumber(body[r])) =>
            /\ pc[r] # "staged" => targetDPI[r] = 300 /\ Accepted(r)
            /\ cmd[r] # NoCmd =>
                cmd[r].xres = <<"3", "0", "0">> /\ cmd[r].yres = <<"3", "0", "0">>
            /\ \A i \in 1..Len(results[r]) : results[r][i].dpi = 300
            /\ Responded(r) /\ Response(r).status = 200 =>
                \A i \in 1..Len(Response(r).files) : Response(r).files[i].dpi = 300

\* C7 witness: a request with a missing field and one with a non-numeric
\* field have both run their engine and been answered 200.
C7_Witness ==
    \E r, q \in Reqs :
        /\ body[r] = Undefined /\ body[q] = <<"a", "b", "c">>
        /\ Len(files[r]) = 2 /\ Len(files[q]) = 1
        /\ Responded(r) /\ Response(r).status = 200
        /\ Responded(q) /\ Response(q).status = 200

\* C8: for a requested integer DPI d in 72..2400 the request is not rejected
\* for its DPI, every engine invocation made for it gets d as horizontal and
\* as vertical device resolution, and every result reports dpi d.
C8_ValidDPIUsedExactly ==
    \A r \in Reqs :
        ( /\ Received(r)
          /\ IsInteger(body[r])
          /\ IntegerOf(body[r]) >= 72 /\ IntegerOf(body[r]) <= 2400 ) =>
            /\ Responded(r) /\ Response(r).status = 400 =>
                Len(files[r]) = 0 /\ Response(r) = NoFilesResponse
            /\ Len(files[r]) >= 1 /\ pc[r] # "staged" => Accepted(r)
            /\ cmd[r] # NoCmd =>
                /\ IsInteger(cmd[r].xres) /\ IsInteger(cmd[r].yres)
                /\ IntegerOf(cmd[r].xres) = IntegerOf(body[r])
                /\ IntegerOf(cmd[r].yres) = IntegerOf(body[r])
            /\ \A i \in 1..Len(results[r]) : results[r][i].dpi = IntegerOf(body[r])
            /\ Responded(r) /\ Response(r).status = 200 =>
                \A i \in 1..Len(Response(r).files) :
                    Response(r).files[i].dpi = IntegerOf(body[r])

\* C8 witness: requests at both ends of the range have been answered 200
\* with results.
C8_Witness ==
    \E r, q \in Reqs :
        /\ body[r] = <<"7", "2">> /\ body[q] = <<"2", "4", "0", "0">>
        /\ Responded(r) /\ Response(r).status = 200 /\ Len(Response(r).files) = 2
        /\ Responded(q) /\ Response(q).status = 200 /\ Len(Response(q).files) = 1

\* C9: in a 200 response the i-th result has the original name of the i-th
\* uploaded file and the output name given to that file's engine invocation.
C9_ResultsInInputOrder ==
    \A r \in Reqs :
        (Responded(r) /\ Response(r).status = 200) =>
            /\ Len(Response(r).files) = Len(files[r])
            /\ \A i \in 1..Len(files[r]) :
                /\ Response(r).files[i].originalName = files[r][i].originalname
                /\ Response(r).files[i].name = hist[r][i].out
                /\ hist[r][i].execs = 1

\* C9 witness: a batch of two files has been answered 200.
C9_Witness ==
    \E r \in Reqs :
        /\ Responded(r) /\ Response(r).status = 200
        /\ Len(files[r]) = 2
        /\ files[r][1].originalname # files[r][2].originalname

\* C10: a request gets at most one response; a 200 response has the success
\* shape (a result list, no error), is sent only when every file of the
\* batch was converted, and lists one result per input file; every other
\* response has the error shape (an error, no result list).
C10_NoMixedShapes ==
    \A r \in Reqs :
        /\ Len(resp[r]) <= 1
        /\ Responded(r) =>
            IF Response(r).status = 200
            THEN /\ DOMAIN Response(r) = {"status", "message", "files"}
                 /\ Len(files[r]) >= 1
                 /\ Len(Response(r).files) = Len(files[r])
                 /\ \A i \in 1..Len(files[r]) : hist[r][i].outcome = "ok"
            ELSE /\ "error" \in DOMAIN Response(r)
                 /\ "files" \notin DOMAIN Response(r)
                 /\ Response(r).status \in {400, 500}
                 /\ \/ Len(files[r]) = 0
                    \/ \E i \in 1..Len(files[r]) : hist[r][i].outcome # "ok"

\* C10 witness: one request answered 200 for a whole batch, another answered
\* 500 with a converted file behind it.
C10_Witness ==
    \E r, q \in Reqs :
        /\ Responded(r) /\ Response(r).status = 200 /\ Len(files[r]) = 2
        /\ Responded(q) /\ Response(q).status = 500 /\ Len(results[q]) = 1

\* C11: a file part declared with another content type than application/pdf
\* is never staged in uploads/ and never gets an output; the whole request
\* that holds it is refused: it never reaches the handler, none of its parts
\* is left staged, no directive is written and no engine is invoked for it.
C11_NonPdfNeverStaged ==
    \A r \in Reqs : \A i \in 1..Len(mimes[r]) :
        mimes[r][i] # "application/pdf" =>
            /\ pc[r] = "rejected"
            /\ files[r] = <<>> /\ hist[r] = <<>>
            /\ cmd[r] = NoCmd /\ results[r] = <<>>
            /\ \A j \in 1..Len(mimes[r]) :
                /\ StagedPath(r, j) \notin uploads
                /\ RandomToken(r, j) \notin DOMAIN output
                /\ \A t \in DOMAIN output : output[t].input # StagedPath(r, j)
            /\ Len(resp[r]) = 1
            /\ Response(r).status # 200 /\ "files" \notin DOMAIN Response(r)

\* C11 witness: a request of a PDF part followed by a PNG part has been
\* refused while the other request has had a file converted.
C11_Witness ==
    \E r, q \in Reqs :
        /\ Len(mimes[r]) = 2
        /\ mimes[r][1] = "application/pdf" /\ mimes[r][2] = "image/png"
        /\ pc[r] = "rejected"
        /\ pc[q] = "done" /\ Len(results[q]) >= 1 /\ DOMAIN output # {}

\* C12: every output name of a 200 response is in the output directory with
\* the content the engine wrote for that file; an output once written is
\* never removed or rewritten by a later operation; and each GET /output
\* answers 200 with the content of the named output when it exists and 404
\* when no output of that name was written, changing nothing on disk.
C12_Kept ==
    \A t \in DOMAIN output : t \in DOMAIN output' /\ output'[t] = output[t]

C12_GetAnswer ==
    got' # got =>
        /\ output' = output /\ uploads' = uploads /\ ps' = ps
        /\ IF got'.name \in DOMAIN output
           THEN got'.status = 200 /\ got'.body = output[got'.name]
           ELSE got'.status = 404

C12_Written ==
    \A r \in Reqs :
        (Responded(r) /\ Response(r).status = 200) =>
            \A i \in 1..Len(Response(r).files) :
                /\ Response(r).files[i].name \in DOMAIN output
                /\ output[Response(r).files[i].name].input = files[r][i].path
                /\ output[Response(r).files[i].name].xres = Decimal(targetDPI[r])

C13_EmptyBatchRejected ==
    \A r \in Reqs :
        (pc[r] \in {"staged", "write", "exec", "running", "unlinkps", "unlinkin", "done"}
         /\ Len(mimes[r]) = 0) =>
            /\ pc[r] \in {"staged", "done"}
            /\ cmd[r] = NoCmd /\ read[r] = NoRead /\ results[r] = <<>>
            /\ targetDPI[r] = 0
            /\ pc[r] = "done" => resp[r] = <<NoFilesResponse>>

\* C13 witness: empty batches sent with a valid and with an out-of-range dpi
\* field have both been answered.
C13_Witness ==
    \E r, q \in Reqs :
        /\ Len(mimes[r]) = 0 /\ body[r] = <<"7", "2">> /\ pc[r] = "done"
        /\ Len(mimes[q]) = 0 /\ body[q] = <<"2", "4", "0", "1">> /\ pc[q] = "done"

\* C14: with no operation failing, from the moment an attempt has written
\* its directive until its engine subprocess has exited the directive file
\* exists: no other attempt's cleanup removes it meanwhile. (Refuted: all
\* attempts write and unlink the one path uploads/setdpi.ps.)
C14_DirectiveLivesThroughEngineRun ==
    faults = 0 =>
        \A r \in Reqs : pc[r] \in {"exec", "running"} => ps.exists

\* The engine spawned for file i of request r has not called back yet.
EngineLive(r, i) == hist[r][i].execs = 1 /\ hist[r][i].psUnlinks = 0

\* C15: within one request at most one engine subprocess is alive and at
\* most one attempt is under way, and the attempt for file i+1 is started
\* only after file i was converted: its engine has exited, its directive
\* unlink and the unlink of its staged input have been done (the input is
\* gone unless that unlink failed).
C15_Sequential ==
    \A r \in Reqs :
        /\ Cardinality({i \in 1..Len(files[r]) : EngineLive(r, i)}) <= 1
        /\ Cardinality({i \in 1..Len(files[r]) : Started(r, i) /\ ~Ended(r, i)}) <= 1
        /\ \A i \in 1..Len(files[r]) :
            /\ hist[r][i].writes <= 1 /\ hist[r][i].execs <= hist[r][i].writes
            /\ hist[r][i].writes = 1 => Started(r, i)
            /\ (i < Len(files[r]) /\ Started(r, i + 1)) =>
                /\ hist[r][i].outcome = "ok"
                /\ hist[r][i].execs = 1 /\ hist[r][i].psUnlinks = 1
                /\ hist[r][i].inUnlinks = 1
                /\ files[r][i].path \notin uploads \/ hist[r][i].inUnlinkFailed
                /\ ~EngineLive(r, i)

\* C15 witness: the engine of the second file of a batch is running while
\* an engine of the other request runs too.
C15_Witness ==
    \E r, q \in Reqs :
        /\ r # q
        /\ Len(files[r]) = 2 /\ idx[r] = 2 /\ pc[r] = "running"
        /\ pc[q] = "running"

\* C16: when the directive write fails for file k of a batch, no engine is
\* invoked for file k, the unlink of file k's staged input is done (the input
\* is gone unless that unlink failed), no later file of the batch is
\* processed, and the request is answered 500.
C16_WriteFailureAborts ==
    \A r \in Reqs : \A k \in 1..Len(files[r]) :
        hist[r][k].outcome = "writefail" =>
            /\ hist[r][k].execs = 0 /\ hist[r][k].psUnlinks = 0
            /\ hist[r][k].out = NoToken
            /\ RandomToken(r, k) \notin DOMAIN output
            /\ Len(results[r]) = k - 1
            /\ hist[r][k].inUnlinks = 1
            /\ pc[r] \in {"unlinkin", "done"} /\ idx[r] = k
            /\ \A j \in (k + 1)..Len(files[r]) :
                ~Started(r, j) /\ hist[r][j].writes = 0 /\ hist[r][j].execs = 0
            /\ pc[r] = "done" =>
                /\ files[r][k].path \notin uploads \/ hist[r][k].inUnlinkFailed
                /\ Len(resp[r]) = 1
                /\ Response(r).status = 500
                /\ Response(r).details.kind = "ps"

\* C16 witness: a batch of two was answered 500 after the directive write of
\* its first file failed; the first input is gone, the second was left alone.
C16_Witness ==
    \E r \in Reqs :
        /\ Len(files[r]) = 2 /\ hist[r][1].outcome = "writefail" /\ pc[r] = "done"
        /\ files[r][1].path \notin uploads /\ files[r][2].path \in uploads
        /\ Response(r).status = 500

\* C17: a failed unlink of the directive or of a staged input changes
\* neither the answer nor the course of the batch: the promise of setPdfDPI
\* settles by the engine's exit alone, a converted file is followed by the
\* next one, and the answer is 200 with every result when every file was
\* converted and 500 with the first failure's error otherwise.
C17_CleanupNeverEscalates ==
    \A r \in Reqs :
        /\ (pc[r] = "unlinkin" /\ exit[r] \in {"ok", "okStderr"}) =>
            /\ hist[r][idx[r]].outcome = "ok"
            /\ Len(results[r]) = idx[r]
            /\ err[r] = NoErr
        /\ (pc[r] = "unlinkin" /\ exit[r] \in {"nonzero", "spawn"}) =>
            /\ hist[r][idx[r]].outcome = "enginefail"
            /\ err[r].kind = "gs"
        /\ \A i \in 1..Len(files[r]) :
            (hist[r][i].outcome = "ok" /\ Ended(r, i) /\ i < Len(files[r])) =>
                Started(r, i + 1)
        /\ (pc[r] = "done" /\ Accepted(r)) =>
            IF \A i \in 1..Len(files[r]) : hist[r][i].outcome = "ok"
            THEN /\ resp[r] = <<OkResponse(results[r])>>
                 /\ Len(results[r]) = Len(files[r])
            ELSE /\ resp[r] = <<ErrorResponse(err[r])>>
                 /\ \E k \in 1..Len(files[r]) :
                       /\ Failed(r, k)
                       /\ err[r].kind =
                            IF hist[r][k].outcome = "writefail" THEN "ps" ELSE "gs"

\* C17 witness: a batch of two was answered 200 although the unlink of its
\* first staged input failed and left the file.
C17_Witness ==
    \E r \in Reqs :
        /\ Len(files[r]) = 2 /\ pc[r] = "done"
        /\ hist[r][1].inUnlinkFailed /\ files[r][1].path \in uploads
        /\ Response(r).status = 200 /\ Len(Response(r).files) = 2

\* C19: an engine invocation that exits with a non-zero status, fails to
\* spawn, or writes on standard error is treated as failed: no result is
\* recorded for its file and the batch is failing when the promise of
\* setPdfDPI has settled.
C19_StderrIsFailure ==
    \A r \in Reqs :
        (pc[r] = "unlinkin" /\ exit[r] \in {"nonzero", "spawn", "okStderr"}) =>
            /\ Len(results[r]) = idx[r] - 1
            /\ hist[r][idx[r]].outcome = "enginefail"
            /\ LoopAborts(err[r])

\* C20: within a conversion attempt the steps come in the order directive
\* written, engine started, engine exited, directive unlinked, result
\* recorded, staged input unlinked; the staged input is there from the start
\* of the attempt until the result is recorded, so during the whole engine
\* run, and the engine has read it.
C20_StepOrder ==
    \A r \in Reqs : \A i \in 1..Len(files[r]) :
        LET h == hist[r][i]
            now == idx[r] = i
        IN  /\ h.execs <= h.writes /\ h.psUnlinks <= h.execs
            /\ h.inUnlinks <= h.writes
            /\ (now /\ pc[r] = "write") =>
                h.execs = 0 /\ h.inUnlinks = 0 /\ files[r][i].path \in uploads
            /\ (now /\ pc[r] \in {"exec", "running", "unlinkps"}) =>
                /\ h.writes = 1 /\ h.execs = 1
                /\ h.psUnlinks = (IF pc[r] = "unlinkps" THEN 1 ELSE 0)
                /\ exit[r] = "none" <=> pc[r] # "unlinkps"
                /\ Len(results[r]) = i - 1
                /\ h.inUnlinks = 0
                /\ files[r][i].path \in uploads
            /\ (now /\ pc[r] = "running") => read[r].input
            /\ (now /\ pc[r] = "unlinkin" /\ h.outcome = "ok") =>
                /\ h.writes = 1 /\ h.execs = 1 /\ h.psUnlinks = 1
                /\ exit[r] \in {"ok", "okStderr"}
                /\ Len(results[r]) = i /\ results[r][i].name = h.token
                /\ h.inUnlinks = 1
                /\ files[r][i].path \in uploads
            /\ (h.outcome = "ok" /\ Ended(r, i)) =>
                /\ h.writes = 1 /\ h.execs = 1 /\ h.psUnlinks = 1 /\ h.inUnlinks = 1
                /\ files[r][i].path \notin uploads \/ h.inUnlinkFailed

\* C20 witness: the second file of a batch was converted, its directive
\* unlinked and its result recorded, and the unlink of its staged input,
\* still there, is under way.
C20_Witness ==
    \E r \in Reqs :
        /\ idx[r] = 2 /\ pc[r] = "unlinkin" /\ hist[r][2].outcome = "ok"
        /\ Len(results[r]) = 2 /\ ~ps.exists
        /\ files[r][2].path \in uploads

\* C18: a request that reaches the handler is never answered twice, and
\* when every filesystem operation completes and every engine exits it is
\* answered, exactly once; nothing but the exit of its engine (or the failure
\* to spawn it) takes a request out of its wait for the engine: there is no
\* timeout.
C18_ExactlyOneResponse ==
    /\ \A r \in Reqs : [](Len(resp[r]) <= 1)
    /\ \A r \in Reqs : [](pc[r] = "done" => Len(resp[r]) = 1)
    /\ \A r \in Reqs : Received(r) ~> (pc[r] = "done" /\ Len(resp[r]) = 1)
    /\ [][\A r \in Reqs :
            (pc[r] \in {"exec", "running"} /\ pc'[r] \notin {"exec", "running"})
                => (pc'[r] = "unlinkps" /\ exit'[r] # "none")]_vars

\* C18 witness: a request was answered once, 200, after two engine runs.
C18_Witness ==
    \E r \in Reqs :
        /\ pc[r] = "done" /\ Len(resp[r]) = 1 /\ Response(r).status = 200
        /\ Len(files[r]) = 2
        /\ hist[r][1].execs = 1 /\ hist[r][2].execs = 1

====
